---- MODULE Spec2Model ----
(***************************************************************************)
(* Five-Movements-Six-Qi engine and the Annual Harmony Index series.       *)
(*                                                                         *)
(* Two deployment variants of the server are modelled side by side:        *)
(*   "simple"  - src/server.ts          (single-term locator, plain %)     *)
(*   "precise" - src/unnamed/part_002   (year-checked locator, safe mod)   *)
(*                                                                         *)
(* Time is counted in ticks of a quarter day since 0001-01-01 00:00 of the *)
(* proleptic Gregorian calendar; tick 2 of a day is 12:00.  Scores are     *)
(* fixed-point numbers in units of 1/10000 point.                          *)
(***************************************************************************)
EXTENDS Integers, Sequences, FiniteSets, TLC

VARIABLES
    variant,        \* which server source file handles the request
    cal,            \* answer pattern of the backing lunisolar calendar
    req,            \* request body {year, month, day}; 0 = missing
    pc,             \* position of the /api/calculate handler
    natal,          \* AHIEngine fields + the summary's WuYunLiuQi
    age,            \* loop variable of the K-line loop
    currentHealth,  \* carried state of the K-line loop
    kline_data,     \* points pushed so far
    flow,           \* flowing-year profile of the last calculateYearAhi
    response,       \* what res.status(..).json(..) sent
    lookup,         \* one call of a table function or of the locator
    session,        \* req.session.userId; 0 = not logged in
    history,        \* rows of the history table
    previous,       \* what an earlier request with the same body was sent
    ui              \* state of the front-end component and its requests

vars == <<variant, cal, req, pc, natal, age, currentHealth, kline_data,
          flow, response, lookup, session, history, previous, ui>>

----------------------------------------------------------------------------
(* Bounds of the model *)

MinYear == 1965
MaxYear == 1966
TableYearSpan == 64

(* Program constants *)

SeriesLength == 60

Variants == {"simple", "precise"}

----------------------------------------------------------------------------
(* 1. Domain tables *)

Element == {"WOOD", "FIRE", "EARTH", "METAL", "WATER"}

ElementGeneration ==
    [e \in Element |->
        CASE e = "WOOD"  -> "FIRE"
          [] e = "FIRE"  -> "EARTH"
          [] e = "EARTH" -> "METAL"
          [] e = "METAL" -> "WATER"
          [] e = "WATER" -> "WOOD"]

ElementOvercomes ==
    [e \in Element |->
        CASE e = "WOOD"  -> "EARTH"
          [] e = "EARTH" -> "WATER"
          [] e = "WATER" -> "FIRE"
          [] e = "FIRE"  -> "METAL"
          [] e = "METAL" -> "WOOD"]

\* the third table repeating the second instead of inverting it
ElementOvercomerForward == ElementOvercomes

ElementOvercomer ==
    [e \in Element |->
        CASE e = "WOOD"  -> "METAL"
          [] e = "METAL" -> "FIRE"
          [] e = "FIRE"  -> "WATER"
          [] e = "WATER" -> "EARTH"
          [] e = "EARTH" -> "WOOD"]

\* what indexing a list outside its range yields
Undefined == [index |-> -1, char |-> "undefined", element |-> "undefined",
              adequacy |-> "undefined"]

HeavenlyStemList ==
    << [index |-> 0, char |-> "JIA",  element |-> "EARTH", adequacy |-> "EXCESS"],
       [index |-> 1, char |-> "YI",   element |-> "METAL", adequacy |-> "DEFICIENCY"],
       [index |-> 2, char |-> "BING", element |-> "WATER", adequacy |-> "EXCESS"],
       [index |-> 3, char |-> "DING", element |-> "WOOD",  adequacy |-> "DEFICIENCY"],
       [index |-> 4, char |-> "WU",   element |-> "FIRE",  adequacy |-> "EXCESS"],
       [index |-> 5, char |-> "JI",   element |-> "EARTH", adequacy |-> "DEFICIENCY"],
       [index |-> 6, char |-> "GENG", element |-> "METAL", adequacy |-> "EXCESS"],
       [index |-> 7, char |-> "XIN",  element |-> "WATER", adequacy |-> "DEFICIENCY"],
       [index |-> 8, char |-> "REN",  element |-> "WOOD",  adequacy |-> "EXCESS"],
       [index |-> 9, char |-> "GUI",  element |-> "FIRE",  adequacy |-> "DEFICIENCY"] >>

EarthlyBranchList ==
    << [index |-> 0,  char |-> "ZI",   element |-> "WATER", adequacy |-> "none"],
       [index |-> 1,  char |-> "CHOU", element |-> "EARTH", adequacy |-> "none"],
       [index |-> 2,  char |-> "YIN",  element |-> "WOOD",  adequacy |-> "none"],
       [index |-> 3,  char |-> "MAO",  element |-> "WOOD",  adequacy |-> "none"],
       [index |-> 4,  char |-> "CHEN", element |-> "EARTH", adequacy |-> "none"],
       [index |-> 5,  char |-> "SI",   element |-> "FIRE",  adequacy |-> "none"],
       [index |-> 6,  char |-> "WU",   element |-> "FIRE",  adequacy |-> "none"],
       [index |-> 7,  char |-> "WEI",  element |-> "EARTH", adequacy |-> "none"],
       [index |-> 8,  char |-> "SHEN", element |-> "METAL", adequacy |-> "none"],
       [index |-> 9,  char |-> "YOU",  element |-> "METAL", adequacy |-> "none"],
       [index |-> 10, char |-> "XU",   element |-> "EARTH", adequacy |-> "none"],
       [index |-> 11, char |-> "HAI",  element |-> "WATER", adequacy |-> "none"] >>

\* the % operator of the source language: the sign follows the dividend
JsRem(a, n) == IF a >= 0 THEN a % n ELSE -((-a) % n)

\* list[i] of the source language for a 0-based index that may be out of range
ListAt(list, i) == IF i >= 0 /\ i < Len(list) THEN list[i + 1] ELSE Undefined

StemIndex(v, year) ==
    IF v = "precise" THEN JsRem(JsRem(year - 4, 10) + 10, 10)
                     ELSE JsRem(year - 4, 10)

HeavenlyStem_fromYear(v, year) == ListAt(HeavenlyStemList, StemIndex(v, year))

BranchIndex(v, year) ==
    IF v = "precise" THEN JsRem(JsRem(year - 4, 12) + 12, 12)
                     ELSE JsRem(year - 4, 12)

EarthlyBranch_fromYear(v, year) == ListAt(EarthlyBranchList, BranchIndex(v, year))

QiTypeList ==
    << [display_name |-> "WEAK_YIN_WOOD",       prefix |-> "WEAK_YIN",      element |-> "WOOD"],
       [display_name |-> "MILD_YIN_FIRE",       prefix |-> "MILD_YIN",      element |-> "FIRE"],
       [display_name |-> "WEAK_YANG_FIRE",      prefix |-> "WEAK_YANG",     element |-> "FIRE"],
       [display_name |-> "DOMINANT_YIN_EARTH",  prefix |-> "DOMINANT_YIN",  element |-> "EARTH"],
       [display_name |-> "MILD_YANG_METAL",     prefix |-> "MILD_YANG",     element |-> "METAL"],
       [display_name |-> "DOMINANT_YANG_WATER", prefix |-> "DOMINANT_YANG", element |-> "WATER"] >>

QiNamed(n) == CHOOSE q \in {QiTypeList[i] : i \in 1..6} : q.display_name = n

\* order.findIndex(q => q.display_name === qi.display_name), 0-based
QiIndex(qi) == CHOOSE i \in 0..5 : QiTypeList[i + 1].display_name = qi.display_name

\* the successor in the cycle instead of the predecessor
QiType_next(qi) == QiTypeList[((QiIndex(qi) + 1) % 6) + 1]

QiType_previous(qi) == QiTypeList[((QiIndex(qi) - 1 + 6) % 6) + 1]

----------------------------------------------------------------------------
(* 2. Civil time: what the Date object of the source language computes *)

IsLeap(y) == (y % 4 = 0 /\ y % 100 # 0) \/ y % 400 = 0

DaysBeforeYear(y) ==
    365 * (y - 1) + ((y - 1) \div 4) - ((y - 1) \div 100) + ((y - 1) \div 400)

CumDays == <<0, 31, 59, 90, 120, 151, 181, 212, 243, 273, 304, 334>>

DaysBeforeMonth(y, m) == CumDays[m] + (IF m > 2 /\ IsLeap(y) THEN 1 ELSE 0)

\* new Date(year, monthIndex, day, hours): a two-digit year means 19xx, a
\* month index outside 0..11 and a day outside the month carry over
NewDate(year, monthIndex, day, tick) ==
    LET y0    == IF year >= 0 /\ year <= 99 THEN 1900 + year ELSE year
        total == y0 * 12 + monthIndex
        y1    == total \div 12
        m1    == total % 12
    IN  (DaysBeforeYear(y1) + DaysBeforeMonth(y1, m1 + 1) + day - 1) * 4 + tick

YearStart(y) == DaysBeforeYear(y) * 4

YearRange == (MinYear - 3)..(MaxYear + SeriesLength + 3)

getFullYear(t) == CHOOSE y \in YearRange : YearStart(y) <= t /\ t < YearStart(y + 1)

\* d.setDate(d.getDate() + offset)
AddDays(t, offset) == t + 4 * offset

----------------------------------------------------------------------------
(* 3. Solar terms and the backing lunisolar calendar *)

Terms == {"DaHan", "LiChun", "ChunFen", "XiaoMan", "MangZhong", "DaShu",
          "ChuShu", "QiuFen", "LiDong", "XiaoXue"}

\* termMonths of the single-term locator
termMonths ==
    [t \in Terms |->
        CASE t = "DaHan"     -> 1
          [] t = "LiChun"    -> 2
          [] t = "ChunFen"   -> 3
          [] t = "XiaoMan"   -> 5
          [] t = "MangZhong" -> 6
          [] t = "DaShu"     -> 7
          [] t = "ChuShu"    -> 8
          [] t = "QiuFen"    -> 9
          [] t = "LiDong"    -> 11
          [] t = "XiaoXue"   -> 11]

\* monthMap[termName] || 6 of the year-checked locator (LiChun is not mapped)
monthMap ==
    [t \in Terms |->
        CASE t = "DaHan"     -> 1
          [] t = "ChunFen"   -> 3
          [] t = "XiaoMan"   -> 5
          [] t = "MangZhong" -> 6
          [] t = "DaShu"     -> 7
          [] t = "ChuShu"    -> 8
          [] t = "QiuFen"    -> 9
          [] t = "XiaoXue"   -> 11
          [] t = "LiDong"    -> 11
          [] OTHER           -> 6]

\* day of the month on which the sun reaches the term's longitude
TermDay ==
    [t \in Terms |->
        CASE t = "DaHan"     -> 20
          [] t = "LiChun"    -> 4
          [] t = "ChunFen"   -> 20
          [] t = "XiaoMan"   -> 21
          [] t = "MangZhong" -> 6
          [] t = "DaShu"     -> 23
          [] t = "ChuShu"    -> 23
          [] t = "QiuFen"    -> 23
          [] t = "LiDong"    -> 7
          [] t = "XiaoXue"   -> 22]

\* The instant the calendar reports for a term of a year, as the Date the
\* locator builds from its year/month/day/hour fields.  The hour moves by a
\* quarter day per year and is set back by the leap day.
TermInstant(y, t) == NewDate(y, termMonths[t] - 1, TermDay[t], y % 4)

NoTerm == [found |-> FALSE, year |-> 0]

\* Solar.fromYmd(y, mon, d).getLunar().getJieQiTable()[termName]: the year of
\* the term instance the table holds, if it holds one.
\*   kind "lunar": the table is that of the lunar year the probed day lies
\*                 in, which starts on cal.newYear = <<month, day>>; lunar
\*                 years after cal.horizon are out of the calendar's range.
\*   kind "table": an arbitrary answer per probed month of the year asked
\*                 for (slot 0 is December of the year before).
JieQiTable(y, mon, d, termName) ==
    IF cal.kind = "lunar"
    THEN LET before == mon < cal.newYear[1]
                       \/ (mon = cal.newYear[1] /\ d < cal.newYear[2])
             ly     == IF before THEN y - 1 ELSE y
         IN  IF ly > cal.horizon THEN NoTerm ELSE [found |-> TRUE, year |-> ly]
    ELSE LET slot == IF y = cal.year THEN mon
                     ELSE IF y = cal.year - 1 /\ mon = 12 THEN 0 ELSE -1
         IN  IF slot = -1 THEN NoTerm
             ELSE IF slot \in cal.same THEN [found |-> TRUE, year |-> cal.year]
             ELSE IF cal.other = "prev" THEN [found |-> TRUE, year |-> cal.year - 1]
             ELSE IF cal.other = "next" THEN [found |-> TRUE, year |-> cal.year + 1]
             ELSE NoTerm

Located(y, t) == [ok |-> TRUE, time |-> TermInstant(y, t), year |-> y, term |-> t]

LocateError(year, t) == [ok |-> FALSE, time |-> 0, year |-> year, term |-> t]

\* server.ts: probe the 15th, 5th and 25th of the term's month, stop at the
\* first non-empty answer, no year re-check
getExactJieqiSimple(year, termName) ==
    LET m        == termMonths[termName]
        testDays == <<15, 5, 25>>
        hits     == {i \in 1..3 : JieQiTable(year, m, testDays[i], termName).found}
    IN  IF hits = {} THEN LocateError(year, termName)
        ELSE LET i == CHOOSE k \in hits : \A j \in hits : k <= j
             IN  Located(JieQiTable(year, m, testDays[i], termName).year, termName)

\* the months the year-checked locator probes, in order, after the carry of
\* month 0 and month 13
checkMonths(year, m) ==
    LET norm(y, mon) == IF mon < 1 THEN <<y - 1, 12>>
                        ELSE IF mon > 12 THEN <<y + 1, 1>> ELSE <<y, mon>>
    IN  << norm(year, m), norm(year, m - 1), norm(year, m + 1), norm(year - 1, 12) >>
        \o [targetM \in 1..12 |-> <<year, targetM>>]

\* the year-checked locator without its year check
getExactJieqiPreciseAnyYear(year, termName) ==
    LET m      == monthMap[termName]
        probes == checkMonths(year, m)
        ans(i) == JieQiTable(probes[i][1], probes[i][2], 15, termName)
        hits   == {i \in 1..Len(probes) : ans(i).found}
    IN  IF hits = {} THEN LocateError(year, termName)
        ELSE LET i == CHOOSE k \in hits : \A j \in hits : k <= j
             IN  Located(ans(i).year, termName)

\* part_002: accept the first probe whose term reports the requested year
getExactJieqiPrecise(year, termName) ==
    LET m      == monthMap[termName]
        probes == checkMonths(year, m)
        ans(i) == JieQiTable(probes[i][1], probes[i][2], 15, termName)
        hits   == {i \in 1..Len(probes) : ans(i).found /\ ans(i).year = year}
    IN  IF hits = {} THEN LocateError(year, termName)
        ELSE LET i == CHOOSE k \in hits : \A j \in hits : k <= j
             IN  Located(ans(i).year, termName)

getExactJieqi(v, year, termName) ==
    IF v = "precise" THEN getExactJieqiPrecise(year, termName)
                     ELSE getExactJieqiSimple(year, termName)

----------------------------------------------------------------------------
(* 4. WuYunLiuQi: movement-year, stem/branch, step partitions *)

\* the first failed lookup of a sequence of locator results, in call order
FirstError(results) ==
    LET bad == {i \in 1..Len(results) : ~results[i].ok}
    IN  results[CHOOSE k \in bad : \A j \in bad : k <= j]

AllOk(results) == \A i \in 1..Len(results) : results[i].ok

\* new WuYunLiuQi(dateObj); err is the locator failure that was thrown
WuYunLiuQi(v, dateObj) ==
    LET currentYearDahan == getExactJieqi(v, getFullYear(dateObj), "DaHan")
        wuyunYear == IF dateObj < currentYearDahan.time
                     THEN getFullYear(dateObj) - 1
                     ELSE getFullYear(dateObj)
    IN  IF ~currentYearDahan.ok
        THEN [ok |-> FALSE, err |-> currentYearDahan, targetDate |-> dateObj,
              wuyunYear |-> 0, stem |-> Undefined, branch |-> Undefined]
        ELSE [ok |-> TRUE, err |-> currentYearDahan, targetDate |-> dateObj,
              wuyunYear |-> wuyunYear,
              stem |-> HeavenlyStem_fromYear(v, wuyunYear),
              branch |-> EarthlyBranch_fromYear(v, wuyunYear)]

Flip(a) == IF a = "EXCESS" THEN "DEFICIENCY" ELSE "EXCESS"

RECURSIVE GuestFrom(_, _, _)
GuestFrom(el, ad, i) ==
    IF i > 5 THEN <<>>
    ELSE <<[step |-> i, element |-> el, adequacy |-> ad]>>
         \o GuestFrom(ElementGeneration[el], Flip(ad), i + 1)

\* the year's own movement repeated at each of the five steps
getGuestFortunesFixed(w) ==
    [i \in 1..5 |-> [step |-> i, element |-> w.stem.element, adequacy |-> w.stem.adequacy]]

getGuestFortunes(w) == GuestFrom(w.stem.element, w.stem.adequacy, 1)

getHostFortunes == <<"WOOD", "FIRE", "EARTH", "METAL", "WATER">>

\* the mapping with ZI listed a second time in place of HAI
ClimaticMappingOverlap ==
    << [branches |-> {"ZI", "WU"},    effects |-> <<"MILD_YIN_FIRE", "MILD_YANG_METAL">>],
       [branches |-> {"CHOU", "WEI"}, effects |-> <<"DOMINANT_YIN_EARTH", "DOMINANT_YANG_WATER">>],
       [branches |-> {"YIN", "SHEN"}, effects |-> <<"WEAK_YANG_FIRE", "WEAK_YIN_WOOD">>],
       [branches |-> {"MAO", "YOU"},  effects |-> <<"MILD_YANG_METAL", "MILD_YIN_FIRE">>],
       [branches |-> {"CHEN", "XU"},  effects |-> <<"DOMINANT_YANG_WATER", "DOMINANT_YIN_EARTH">>],
       [branches |-> {"SI", "ZI"},    effects |-> <<"WEAK_YIN_WOOD", "WEAK_YANG_FIRE">>] >>

ClimaticMapping ==
    << [branches |-> {"ZI", "WU"},    effects |-> <<"MILD_YIN_FIRE", "MILD_YANG_METAL">>],
       [branches |-> {"CHOU", "WEI"}, effects |-> <<"DOMINANT_YIN_EARTH", "DOMINANT_YANG_WATER">>],
       [branches |-> {"YIN", "SHEN"}, effects |-> <<"WEAK_YANG_FIRE", "WEAK_YIN_WOOD">>],
       [branches |-> {"MAO", "YOU"},  effects |-> <<"MILD_YANG_METAL", "MILD_YIN_FIRE">>],
       [branches |-> {"CHEN", "XU"},  effects |-> <<"DOMINANT_YANG_WATER", "DOMINANT_YIN_EARTH">>],
       [branches |-> {"SI", "HAI"},   effects |-> <<"WEAK_YIN_WOOD", "WEAK_YANG_FIRE">>] >>

\* found = FALSE is the function falling off its loop and returning nothing
getClimaticEffect(w) ==
    LET items == {i \in 1..6 : w.branch.char \in ClimaticMapping[i].branches}
    IN  IF items = {}
        THEN [found |-> FALSE, celestial |-> QiTypeList[1], terrestrial |-> QiTypeList[1]]
        ELSE LET item == ClimaticMapping[CHOOSE k \in items : \A j \in items : k <= j]
             IN  [found |-> TRUE, celestial |-> QiNamed(item.effects[1]),
                  terrestrial |-> QiNamed(item.effects[2])]

getGuestQiSequence(w) ==
    LET st == getClimaticEffect(w).celestial
        zq == getClimaticEffect(w).terrestrial
    IN  << QiType_previous(QiType_previous(st)), QiType_previous(st), st,
           QiType_previous(QiType_previous(zq)), QiType_previous(zq), zq >>

termOffsets == << <<"DaHan", 0>>, <<"ChunFen", 13>>, <<"MangZhong", 10>>,
                  <<"ChuShu", 7>>, <<"LiDong", 4>> >>

\* the locator calls behind startDates, in call order
FortuneLookups(v, w) ==
    [i \in 1..5 |-> getExactJieqi(v, w.wuyunYear, termOffsets[i][1])]
    \o << getExactJieqi(v, w.wuyunYear + 1, "DaHan") >>

startDates(v, w) ==
    [i \in 1..6 |-> IF i <= 5
                    THEN AddDays(FortuneLookups(v, w)[i].time, termOffsets[i][2])
                    ELSE FortuneLookups(v, w)[i].time]

qiTerms == <<"DaHan", "ChunFen", "XiaoMan", "DaShu", "QiuFen", "XiaoXue", "DaHan">>

QiLookups(v, w) ==
    [i \in 1..7 |-> getExactJieqi(v, w.wuyunYear + (IF i = 7 THEN 1 ELSE 0), qiTerms[i])]

qiBounds(v, w) == [i \in 1..7 |-> QiLookups(v, w)[i].time]

\* the 0-based indices i < n with bounds[i] <= t < bounds[i+1]
Containing(t, bounds, n) == {i \in 0..(n - 1) : t >= bounds[i + 1] /\ t < bounds[i + 2]}

\* let step = n-1; for (i = 0; i < n; i++) if (...) { step = i; break; }
StepSearch(t, bounds, n) ==
    IF Containing(t, bounds, n) = {} THEN n - 1
    ELSE CHOOSE k \in Containing(t, bounds, n) : \A j \in Containing(t, bounds, n) : k <= j

FortuneStep(v, w) == StepSearch(w.targetDate, startDates(v, w), 5)

QiStep(v, w) == StepSearch(w.targetDate, qiBounds(v, w), 6)

\* [host movement, guest movement element]
getCurrentFortuneEnums(v, w) ==
    << getHostFortunes[FortuneStep(v, w) + 1],
       getGuestFortunes(w)[FortuneStep(v, w) + 1].element >>

\* return [hostQis[step], this.getGuestQiSequence()[step]]
QiEnumsAt(w, step) == << QiTypeList[step + 1], getGuestQiSequence(w)[step + 1] >>

\* [host qi, guest qi]
getCurrentQiEnums(v, w) == QiEnumsAt(w, QiStep(v, w))

getCurrentFortune(v, w) ==
    [step_index |-> FortuneStep(v, w) + 1,
     start_date |-> startDates(v, w)[FortuneStep(v, w) + 1],
     host       |-> getHostFortunes[FortuneStep(v, w) + 1],
     guest      |-> getGuestFortunes(w)[FortuneStep(v, w) + 1]]

getCurrentQi(v, w) ==
    [step_index |-> QiStep(v, w) + 1,
     term_range |-> <<qiBounds(v, w)[QiStep(v, w) + 1], qiBounds(v, w)[QiStep(v, w) + 2]>>,
     host       |-> QiTypeList[QiStep(v, w) + 1],
     guest      |-> getGuestQiSequence(w)[QiStep(v, w) + 1]]

----------------------------------------------------------------------------
(* 5. AHIEngine *)

\* _calcBaseScore with the constants +20/-20/-10 and +15/-15
calcBaseScoreWide(birthHostQi, birthGuestQi) ==
    LET hEl == birthHostQi.element
        gEl == birthGuestQi.element
        rel == IF ElementGeneration[gEl] = hEl \/ ElementGeneration[hEl] = gEl \/ gEl = hEl
               THEN 20
               ELSE IF ElementOvercomes[hEl] = gEl THEN -20
               ELSE IF ElementOvercomes[gEl] = hEl THEN -10
               ELSE 0
        special == IF birthGuestQi.display_name = "MILD_YIN_FIRE"
                      /\ birthHostQi.display_name = "WEAK_YANG_FIRE" THEN 15
                   ELSE IF birthGuestQi.display_name = "WEAK_YANG_FIRE"
                      /\ birthHostQi.display_name = "MILD_YIN_FIRE" THEN -15
                   ELSE 0
    IN  50 + rel + special

\* _calcBaseScore, in whole points
calcBaseScore(birthHostQi, birthGuestQi) ==
    LET hEl == birthHostQi.element
        gEl == birthGuestQi.element
        rel == IF ElementGeneration[gEl] = hEl \/ ElementGeneration[hEl] = gEl \/ gEl = hEl
               THEN 10
               ELSE IF ElementOvercomes[hEl] = gEl THEN -15
               ELSE IF ElementOvercomes[gEl] = hEl THEN -10
               ELSE 0
        special == IF birthGuestQi.display_name = "MILD_YIN_FIRE"
                      /\ birthHostQi.display_name = "WEAK_YANG_FIRE" THEN 8
                   ELSE IF birthGuestQi.display_name = "WEAK_YANG_FIRE"
                      /\ birthHostQi.display_name = "MILD_YIN_FIRE" THEN -8
                   ELSE 0
    IN  50 + rel + special

\* the locator calls of new AHIEngine(birthDt) after its WuYunLiuQi exists
EngineLookups(v, w) == FortuneLookups(v, w) \o QiLookups(v, w)

\* the strong and the weak element the constructor derives from the natal stem
Zang(stem) ==
    [natalSuiYun |-> stem.element,
     strongZang  |-> IF stem.adequacy = "EXCESS" THEN stem.element
                     ELSE ElementOvercomer[stem.element],
     weakZang    |-> IF stem.adequacy = "EXCESS" THEN ElementOvercomes[stem.element]
                     ELSE stem.element]

\* new AHIEngine(birthDt), given its natalCalc w (w.ok, stem defined)
AHIEngine(v, w) ==
    LET natalSuiYun   == w.stem.element
        natalAdequacy == w.stem.adequacy
    IN  [natalCalc    |-> w,
         natalSuiYun  |-> natalSuiYun,
         strongZang   |-> Zang(w.stem).strongZang,
         weakZang     |-> Zang(w.stem).weakZang,
         birthHostYun |-> getCurrentFortuneEnums(v, w)[1],
         birthHostQi  |-> getCurrentQiEnums(v, w)[1],
         birthGuestQi |-> getCurrentQiEnums(v, w)[2],
         baseScore    |-> calcBaseScore(getCurrentQiEnums(v, w)[1],
                                        getCurrentQiEnums(v, w)[2])]

suiYunPts(e, cySuiYun, cyAdequacy) ==
    (IF cySuiYun = e.natalSuiYun THEN 25
     ELSE IF ElementGeneration[cySuiYun] = e.natalSuiYun
             \/ ElementGeneration[e.natalSuiYun] = cySuiYun THEN 18
     ELSE IF ElementOvercomes[cySuiYun] = e.natalSuiYun
             \/ ElementOvercomes[e.natalSuiYun] = cySuiYun THEN -22
     ELSE 0)
    + (IF cyAdequacy = "EXCESS" /\ ElementOvercomes[cySuiYun] = e.weakZang
       THEN -15 ELSE 0)
    + (IF cyAdequacy = "DEFICIENCY" /\ ElementGeneration[cySuiYun] = e.strongZang
       THEN 10 ELSE 0)

stepPts(e, gy) ==
    IF gy = e.birthHostYun THEN 20
    ELSE IF ElementGeneration[gy] = e.birthHostYun \/ ElementGeneration[gy] = e.weakZang
    THEN 15
    ELSE IF ElementOvercomes[gy] = e.birthHostYun \/ ElementOvercomes[gy] = e.weakZang
    THEN -25
    ELSE 0

RECURSIVE SumStepPts(_, _, _)
SumStepPts(e, guestYuns, i) ==
    IF i > Len(guestYuns) THEN 0
    ELSE stepPts(e, guestYuns[i].element) + SumStepPts(e, guestYuns, i + 1)

sqPts1(e, siTian, zaiQuan) ==
    (IF siTian.prefix = e.birthHostQi.prefix \/ zaiQuan.prefix = e.birthHostQi.prefix
     THEN 22 ELSE 0)
    + (IF ElementGeneration[siTian.element] = e.birthHostQi.element THEN 16 ELSE 0)
    + (IF ElementOvercomes[siTian.element] = e.birthHostQi.element
          \/ ElementOvercomes[siTian.element] = e.weakZang THEN -28 ELSE 0)
    + (IF ElementOvercomes[zaiQuan.element] = e.birthHostQi.element
          \/ ElementOvercomes[zaiQuan.element] = e.weakZang THEN -28 ELSE 0)

\* the six conditions each contributing when it matches
sqPts2Cumulative(e, siTian, cyBranchEl) ==
    LET natalYun == e.natalSuiYun
    IN  (IF ElementGeneration[siTian.element] = natalYun THEN 22 ELSE 0)
        + (IF natalYun = cyBranchEl THEN 20 ELSE 0)
        + (IF ElementGeneration[natalYun] = siTian.element THEN -15 ELSE 0)
        + (IF ElementOvercomes[natalYun] = siTian.element THEN -20 ELSE 0)
        + (IF ElementOvercomes[siTian.element] = natalYun THEN -28 ELSE 0)
        + (IF natalYun = siTian.element THEN -12 ELSE 0)

sqPts2(e, siTian, cyBranchEl) ==
    LET natalYun == e.natalSuiYun
    IN  IF ElementGeneration[siTian.element] = natalYun THEN 22
        ELSE IF natalYun = cyBranchEl THEN 20
        ELSE IF ElementGeneration[natalYun] = siTian.element THEN -15
        ELSE IF ElementOvercomes[natalYun] = siTian.element THEN -20
        ELSE IF ElementOvercomes[siTian.element] = natalYun THEN -28
        ELSE IF natalYun = siTian.element THEN -12
        ELSE 0

\* totalRawCollision in units of 1/10000 point, for a flowing year whose
\* WuYunLiuQi is flowYear:
\*   weightedYun = suiYunPts*0.90 + (stepPtsSum/5)*0.10   (in 1/100: *90, *2)
\*   weightedQi  = sqPts1*0.25 + sqPts2*0.75              (in 1/100: *25, *75)
\*   total       = weightedYun*0.30 + weightedQi*0.70     (in 1/100: *30, *70)
totalRawCollision(e, flowYear) ==
    LET effect      == getClimaticEffect(flowYear)
        weightedYun == suiYunPts(e, flowYear.stem.element, flowYear.stem.adequacy) * 90
                       + SumStepPts(e, getGuestFortunes(flowYear), 1) * 2
        weightedQi  == sqPts1(e, effect.celestial, effect.terrestrial) * 25
                       + sqPts2(e, effect.celestial, flowYear.branch.element) * 75
    IN  weightedYun * 30 + weightedQi * 70

\* calculateYearAhi(targetYear): the located Great Cold, the flowing year
\* built from it, and the score
calculateYearAhi(v, e, targetYear) ==
    LET dt       == getExactJieqi(v, targetYear, "DaHan")
        flowYear == WuYunLiuQi(v, dt.time)
    IN  IF ~dt.ok
        THEN [ok |-> FALSE, err |-> dt, targetYear |-> targetYear, dt |-> 0,
              wuyunYear |-> 0, impact |-> 0]
        ELSE IF ~flowYear.ok
        THEN [ok |-> FALSE, err |-> flowYear.err, targetYear |-> targetYear,
              dt |-> dt.time, wuyunYear |-> 0, impact |-> 0]
        ELSE [ok |-> TRUE, err |-> dt, targetYear |-> targetYear, dt |-> dt.time,
              wuyunYear |-> flowYear.wuyunYear,
              impact |-> totalRawCollision(e, flowYear)]

\* the age bands with every boundary one year early
lifecycleDriftShifted(a) ==
    IF a >= 1 /\ a <= 19 THEN 8000
    ELSE IF a >= 20 /\ a <= 39 THEN 0
    ELSE IF a >= 40 /\ a <= 49 THEN -8000
    ELSE -15000

lifecycleDrift(a) ==
    IF a >= 1 /\ a <= 20 THEN 8000
    ELSE IF a >= 21 /\ a <= 40 THEN 0
    ELSE IF a >= 41 /\ a <= 50 THEN -8000
    ELSE -15000

\* x / d rounded to the nearest unit (x >= 0)
RoundDiv(x, d) == (2 * x + d) \div (2 * d)

\* (currentHealth * 0.6) + (engine.baseScore * 0.4)
dynamicBase(cur, baseScore) == RoundDiv(cur * 6 + baseScore * 10000 * 4, 10)

Max(a, b) == IF a >= b THEN a ELSE b

Min(a, b) == IF a <= b THEN a ELSE b

\* the clamp without its lower bound: Math.min(100, closeScore)
ClampUpperOnly(x) == Min(100 * 10000, x)

\* Math.max(0, Math.min(100, closeScore))
Clamp(x) == Max(0, Min(100 * 10000, x))

closeScore(cur, baseScore, impact, a) ==
    Clamp(dynamicBase(cur, baseScore) + impact + lifecycleDrift(a))

\* parseFloat(x.toFixed(2)), in hundredths of a point (x >= 0)
toFixed2(x) == RoundDiv(x, 100)

----------------------------------------------------------------------------
(* 6. POST /api/calculate *)

NoError == [kind |-> "none", year |-> 0, term |-> "none"]

\* error.message of the Error the locator throws: it names year and term
LocateMessage(err) == [kind |-> "locate", year |-> err.year, term |-> err.term]

NoSummary == [ganzhi |-> <<>>, suiyun |-> <<>>, sitian |-> "none", zaiquan |-> "none",
              fortune_step |-> 0, fortune_host |-> "none", fortune_guest |-> "none",
              qi_step |-> 0, qi_host |-> "none", qi_guest |-> "none"]

\* historyId = 0 is the null of a request that stored nothing
NoResponse == [status |-> 0, error |-> NoError, wylq_summary |-> NoSummary,
               kline_data |-> <<>>, base_score |-> 0, historyId |-> 0]

NoNatal == [built |-> FALSE]

NoFlow == [ok |-> FALSE, err |-> LocateError(0, "none"), targetYear |-> 0, dt |-> 0,
           wuyunYear |-> 0, impact |-> 0]

NoLookup == [kind |-> "none"]

\* the front-end component before it is mounted
NoUi == [mounted |-> FALSE]

\* the birth dates a request may carry: <<month, day>>, 0 = missing
BirthDates ==
    { <<0, 15>>, <<6, 0>>, <<1, 1>>, <<1, 19>>, <<1, 20>>, <<1, 21>>, <<2, 29>>,
      <<3, 20>>, <<4, 2>>, <<6, 16>>, <<7, 23>>, <<8, 30>>, <<11, 22>>,
      <<12, 31>>, <<13, 1>>, <<2, 31>>, <<6, 32>> }

Requests ==
    { [year |-> y, month |-> md[1], day |-> md[2]] :
        y \in {0} \cup (MinYear..MaxYear), md \in BirthDates }

\* lunar new year on <<1,1>> makes every table that of the civil year
LunarCalendars ==
    { [kind |-> "lunar", newYear |-> ny, horizon |-> h] :
        ny \in { <<1, 1>>, <<1, 22>>, <<2, 17>> },
        h  \in { MinYear - 3, MinYear + 30, MaxYear + 2 * SeriesLength } }

InitCalc ==
    /\ variant \in Variants
    /\ cal \in LunarCalendars
    /\ req \in Requests
    /\ pc = "received"
    /\ natal = NoNatal
    /\ age = 0
    /\ currentHealth = 0
    /\ kline_data = <<>>
    /\ flow = NoFlow
    /\ response = NoResponse
    /\ lookup = NoLookup
    /\ session = 0
    /\ history = <<>>
    /\ previous = NoResponse
    /\ ui = NoUi

Missing == req.year = 0 \/ req.month = 0 \/ req.day = 0

\* new Date(year, month - 1, day, 12, 0)
birthDate == NewDate(req.year, req.month - 1, req.day, 2)

\* if (!year || !month || !day) return res.status(400)...
RejectMissing ==
    /\ pc = "received"
    /\ Missing
    /\ response' = [NoResponse EXCEPT !.status = 400,
                                      !.error = [kind |-> "missing", year |-> 0,
                                                 term |-> "none"]]
    /\ pc' = "done"
    /\ UNCHANGED <<variant, cal, req, natal, age, currentHealth, kline_data, flow, lookup,
                   session, history, previous, ui>>

\* the locator calls from new WuYunLiuQi(birthDate) to calc.getCurrentQi(),
\* given that the constructor's own call succeeded
NatalLookups(w) == EngineLookups(variant, w)

Summary(w) ==
    [ganzhi        |-> <<w.stem.char, w.branch.char>>,
     suiyun        |-> <<w.stem.element, w.stem.adequacy>>,
     sitian        |-> getClimaticEffect(w).celestial.display_name,
     zaiquan       |-> getClimaticEffect(w).terrestrial.display_name,
     fortune_step  |-> getCurrentFortune(variant, w).step_index,
     fortune_host  |-> getCurrentFortune(variant, w).host,
     fortune_guest |-> getCurrentFortune(variant, w).guest.element,
     qi_step       |-> getCurrentQi(variant, w).step_index,
     qi_host       |-> getCurrentQi(variant, w).host.display_name,
     qi_guest      |-> getCurrentQi(variant, w).guest.display_name]

\* const calc = new WuYunLiuQi(birthDate); const engine = new AHIEngine(birthDate);
\* the summary; let currentHealth = engine.baseScore
BuildNatal ==
    /\ pc = "received"
    /\ ~Missing
    /\ \E calc \in {WuYunLiuQi(variant, birthDate)} :
          /\ calc.ok
          /\ AllOk(NatalLookups(calc))
          /\ \E engine \in {AHIEngine(variant, calc)} :
                /\ natal' = [built |-> TRUE, engine |-> engine,
                             wylq_summary |-> Summary(calc),
                             fortuneStep |-> FortuneStep(variant, calc),
                             qiStep |-> QiStep(variant, calc),
                             startDates |-> startDates(variant, calc),
                             qiBounds |-> qiBounds(variant, calc)]
                /\ currentHealth' = engine.baseScore * 10000
    /\ age' = 1
    /\ pc' = "loop"
    /\ UNCHANGED <<variant, cal, req, kline_data, flow, response, lookup,
                   session, history, previous, ui>>

\* a locator call of the natal part throws: catch, res.status(500)
NatalFails ==
    /\ pc = "received"
    /\ ~Missing
    /\ \E calc \in {WuYunLiuQi(variant, birthDate)} :
          /\ ~calc.ok \/ ~AllOk(NatalLookups(calc))
          /\ response' = [NoResponse EXCEPT
                 !.status = 500,
                 !.error = LocateMessage(IF ~calc.ok THEN calc.err
                                         ELSE FirstError(NatalLookups(calc)))]
    /\ pc' = "done"
    /\ UNCHANGED <<variant, cal, req, natal, age, currentHealth, kline_data, flow, lookup,
                   session, history, previous, ui>>

\* the point with open cut to two decimals instead of rounded
KlinePointFloorOpen(a, cur, c) == [age |-> a, open |-> cur \div 100, close |-> toFixed2(c)]

\* kline_data.push({ age, open: parseFloat(currentHealth.toFixed(2)),
\*                   close: parseFloat(closeScore.toFixed(2)) }), in hundredths
KlinePoint(a, cur, c) == [age |-> a, open |-> toFixed2(cur), close |-> toFixed2(c)]

\* one iteration of for (let age = 1; age <= 60; age++)
YearStep ==
    /\ pc = "loop"
    /\ age <= SeriesLength
    /\ \E r \in {calculateYearAhi(variant, natal.engine, req.year + age - 1)} :
          /\ r.ok
          /\ flow' = r
          /\ \E c \in {closeScore(currentHealth, natal.engine.baseScore, r.impact, age)} :
                /\ kline_data' = Append(kline_data, KlinePoint(age, currentHealth, c))
                /\ currentHealth' = c
    /\ age' = age + 1
    /\ UNCHANGED <<variant, cal, req, pc, natal, response, lookup,
                   session, history, previous, ui>>

\* the catch block answering with the points pushed so far
YearFailsPartial ==
    /\ pc = "loop"
    /\ age <= SeriesLength
    /\ \E r \in {calculateYearAhi(variant, natal.engine, req.year + age - 1)} :
          /\ ~r.ok
          /\ flow' = r
          /\ response' = [NoResponse EXCEPT !.status = 500,
                                            !.error = LocateMessage(r.err),
                                            !.kline_data = kline_data]
    /\ pc' = "done"
    /\ UNCHANGED <<variant, cal, req, natal, age, currentHealth, kline_data, lookup,
                   session, history, previous, ui>>

\* calculateYearAhi throws inside the loop: catch, res.status(500)
YearFails ==
    /\ pc = "loop"
    /\ age <= SeriesLength
    /\ \E r \in {calculateYearAhi(variant, natal.engine, req.year + age - 1)} :
          /\ ~r.ok
          /\ flow' = r
          /\ response' = [NoResponse EXCEPT !.status = 500,
                                            !.error = LocateMessage(r.err)]
    /\ pc' = "done"
    /\ UNCHANGED <<variant, cal, req, natal, age, currentHealth, kline_data, lookup,
                   session, history, previous, ui>>

\* the row part_002 inserts for a logged-in user before it answers
HistoryRow ==
    [id         |-> Len(history) + 1,
     user_id    |-> session,
     birth_date |-> <<req.year, req.month, req.day>>,
     wylq_data  |-> [wylq_summary |-> natal.wylq_summary, kline_data |-> kline_data],
     base_score |-> natal.engine.baseScore]

\* the insert without its if (req.session.userId)
StoresAlways == variant = "precise"

\* whether this request stores its result: only part_002 has the table
Stores == variant = "precise" /\ session # 0

\* the answer whose summary also counts the stored rows
RespondCountingHistory ==
    /\ pc = "loop"
    /\ age > SeriesLength
    /\ response' = [status |-> 200, error |-> NoError,
                    wylq_summary |-> [natal.wylq_summary EXCEPT
                                         !.qi_step = @ + Len(history)],
                    kline_data |-> kline_data,
                    base_score |-> natal.engine.baseScore,
                    historyId |-> IF Stores THEN HistoryRow.id ELSE 0]
    /\ history' = IF Stores THEN Append(history, HistoryRow) ELSE history
    /\ pc' = "done"
    /\ UNCHANGED <<variant, cal, req, natal, age, currentHealth, kline_data, flow, lookup,
                   session, previous, ui>>

\* server.ts: res.json({ wylq_summary, kline_data, base_score: engine.baseScore })
\* part_002:  the history insert of a logged-in user, then
\*            res.json({ wylq_summary, kline_data, base_score, historyId })
Respond ==
    /\ pc = "loop"
    /\ age > SeriesLength
    /\ response' = [status |-> 200, error |-> NoError,
                    wylq_summary |-> natal.wylq_summary,
                    kline_data |-> kline_data,
                    base_score |-> natal.engine.baseScore,
                    historyId |-> IF Stores THEN HistoryRow.id ELSE 0]
    /\ history' = IF Stores THEN Append(history, HistoryRow) ELSE history
    /\ pc' = "done"
    /\ UNCHANGED <<variant, cal, req, natal, age, currentHealth, kline_data, flow, lookup,
                   session, previous, ui>>

NextCalc ==
    \/ RejectMissing
    \/ BuildNatal
    \/ NatalFails
    \/ YearStep
    \/ YearFails
    \/ Respond

Spec == InitCalc /\ [][NextCalc]_vars

\* The same body posted twice.  Between the two requests the client may log
\* in or out, and the first request may have stored a row.

RepeatDates == { <<0, 15>>, <<1, 1>>, <<7, 23>> }

RepeatRequests ==
    { [year |-> y, month |-> md[1], day |-> md[2]] :
        y \in {0} \cup (MinYear..MaxYear), md \in RepeatDates }

RepeatCalendars == { c \in LunarCalendars : c.newYear # <<2, 17>> }

Sessions == {0, 1}

InitRepeat ==
    /\ variant \in Variants
    /\ cal \in RepeatCalendars
    /\ req \in RepeatRequests
    /\ pc = "received"
    /\ natal = NoNatal
    /\ age = 0
    /\ currentHealth = 0
    /\ kline_data = <<>>
    /\ flow = NoFlow
    /\ response = NoResponse
    /\ lookup = NoLookup
    /\ session \in Sessions
    /\ history = <<>>
    /\ previous = NoResponse
    /\ ui = NoUi

\* app.post("/api/calculate", ...) is invoked again with the same body: the
\* handler's locals are fresh, the session and the table are what they are
PostAgain ==
    /\ pc = "done"
    /\ previous = NoResponse
    /\ previous' = response
    /\ session' \in Sessions
    /\ pc' = "received"
    /\ natal' = NoNatal
    /\ age' = 0
    /\ currentHealth' = 0
    /\ kline_data' = <<>>
    /\ flow' = NoFlow
    /\ response' = NoResponse
    /\ UNCHANGED <<variant, cal, req, lookup, history, ui>>

NextRepeat ==
    \/ NextCalc
    \/ PostAgain

SpecRepeat == InitRepeat /\ [][NextRepeat]_vars

----------------------------------------------------------------------------
(* 7. The table functions and the locator, called on their own *)

DefaultCalendar == [kind |-> "lunar", newYear |-> <<1, 1>>,
                    horizon |-> MaxYear + 2 * SeriesLength]

NoRequest == [year |-> 0, month |-> 0, day |-> 0]

InitTables ==
    /\ variant \in Variants
    /\ cal = DefaultCalendar
    /\ req = NoRequest
    /\ pc = "tables"
    /\ natal = NoNatal
    /\ age = 0
    /\ currentHealth = 0
    /\ kline_data = <<>>
    /\ flow = NoFlow
    /\ response = NoResponse
    /\ session = 0
    /\ history = <<>>
    /\ previous = NoResponse
    /\ ui = NoUi
    /\ lookup \in { [kind |-> "fromYear", year |-> y, done |-> FALSE,
                     stem |-> Undefined, branch |-> Undefined,
                     stem60 |-> Undefined, branch60 |-> Undefined] :
                    y \in (-TableYearSpan)..TableYearSpan }

\* HeavenlyStem.fromYear and EarthlyBranch.fromYear of a year and of the
\* year 60 later
FromYear ==
    /\ pc = "tables"
    /\ lookup.kind = "fromYear"
    /\ ~lookup.done
    /\ lookup' = [lookup EXCEPT
          !.done = TRUE,
          !.stem = HeavenlyStem_fromYear(variant, lookup.year),
          !.branch = EarthlyBranch_fromYear(variant, lookup.year),
          !.stem60 = HeavenlyStem_fromYear(variant, lookup.year + 60),
          !.branch60 = EarthlyBranch_fromYear(variant, lookup.year + 60)]
    /\ UNCHANGED <<variant, cal, req, pc, natal, age, currentHealth, kline_data,
                   flow, response,
                   session, history, previous, ui>>

NextTables == FromYear

SpecTables == InitTables /\ [][NextTables]_vars

\* the months one call of the year-checked locator can probe: 1..12 of the
\* requested year, and 0 for December of the year before
ProbeSlots == 0..12

TableCalendars ==
    { [kind |-> "table", year |-> MaxYear, same |-> S, other |-> o] :
        S \in SUBSET ProbeSlots, o \in {"none", "prev", "next"} }

LocateTerms == {"DaHan", "LiDong", "LiChun"}

InitLocate ==
    /\ variant = "precise"
    /\ cal \in TableCalendars
    /\ req = NoRequest
    /\ pc = "locate"
    /\ natal = NoNatal
    /\ age = 0
    /\ currentHealth = 0
    /\ kline_data = <<>>
    /\ flow = NoFlow
    /\ response = NoResponse
    /\ session = 0
    /\ history = <<>>
    /\ previous = NoResponse
    /\ ui = NoUi
    /\ lookup \in { [kind |-> "locate", term |-> t, done |-> FALSE,
                     result |-> LocateError(0, "none")] : t \in LocateTerms }

\* AstronomyEngine.getExactJieqi(year, termName) against an arbitrary
\* answer pattern of the calendar
Locate ==
    /\ pc = "locate"
    /\ lookup.kind = "locate"
    /\ ~lookup.done
    /\ lookup' = [lookup EXCEPT
          !.done = TRUE,
          !.result = getExactJieqi(variant, cal.year, lookup.term)]
    /\ UNCHANGED <<variant, cal, req, pc, natal, age, currentHealth, kline_data,
                   flow, response,
                   session, history, previous, ui>>

NextLocate == Locate

SpecLocate == InitLocate /\ [][NextLocate]_vars

\* The engine's table functions, each called on every input it can be given

\* a WuYunLiuQi whose year has the stem and the branch of the given indices
ProfileOf(stemIdx, branchIdx) ==
    [ok |-> TRUE, err |-> LocateError(0, "none"), targetDate |-> 0, wuyunYear |-> 0,
     stem |-> HeavenlyStemList[stemIdx + 1], branch |-> EarthlyBranchList[branchIdx + 1]]

EngineCalls ==
    { [kind |-> "baseScore", host |-> h, guest |-> g, done |-> FALSE, score |-> 0] :
        h \in 1..6, g \in 1..6 }
    \cup
    { [kind |-> "climatic", branch |-> b, done |-> FALSE,
       effect |-> getClimaticEffect(ProfileOf(0, 0))] : b \in 0..11 }
    \cup
    { [kind |-> "relation", element |-> x, done |-> FALSE, generates |-> "none",
       overcomes |-> "none", overcomer |-> "none", back |-> "none"] : x \in Element }
    \cup
    { [kind |-> "guestQi", branch |-> b, step |-> st, done |-> FALSE,
       sequence |-> <<>>, enums |-> <<>>] : b \in 0..11, st \in 0..5 }
    \cup
    { [kind |-> "sqPts2", natalYun |-> n, siTian |-> q, cyBranchEl |-> b,
       done |-> FALSE, pts |-> 0] : n \in Element, q \in 1..6, b \in Element }
    \cup
    { [kind |-> "suiYun", natalStem |-> n, flowStem |-> f, done |-> FALSE, pts |-> 0] :
        n \in 0..9, f \in 0..9 }
    \cup
    { [kind |-> "stepSum", natalStem |-> n, hostYun |-> h, flowStem |-> f, done |-> FALSE,
       guests |-> <<>>, sum |-> 0, sumOfJia |-> 0] :
        n \in 0..9, h \in Element, f \in 0..9 }

InitEngine ==
    /\ variant \in Variants
    /\ cal = DefaultCalendar
    /\ req = NoRequest
    /\ pc = "engine"
    /\ natal = NoNatal
    /\ age = 0
    /\ currentHealth = 0
    /\ kline_data = <<>>
    /\ flow = NoFlow
    /\ response = NoResponse
    /\ session = 0
    /\ history = <<>>
    /\ previous = NoResponse
    /\ ui = NoUi
    /\ lookup \in EngineCalls

\* the call with the last else-if of the relation chain missing
CalcBaseScoreNoThirdBranch ==
    /\ pc = "engine"
    /\ lookup.kind = "baseScore"
    /\ ~lookup.done
    /\ lookup' = [lookup EXCEPT
          !.done = TRUE,
          !.score = IF ElementOvercomes[QiTypeList[lookup.guest].element]
                          = QiTypeList[lookup.host].element
                       /\ ElementOvercomes[QiTypeList[lookup.host].element]
                          # QiTypeList[lookup.guest].element
                    THEN 50
                    ELSE calcBaseScore(QiTypeList[lookup.host], QiTypeList[lookup.guest])]
    /\ UNCHANGED <<variant, cal, req, pc, natal, age, currentHealth, kline_data,
                   flow, response, session, history, previous, ui>>

\* this._calcBaseScore() for a birth host qi and a birth guest qi
CalcBaseScore ==
    /\ pc = "engine"
    /\ lookup.kind = "baseScore"
    /\ ~lookup.done
    /\ lookup' = [lookup EXCEPT
          !.done = TRUE,
          !.score = calcBaseScore(QiTypeList[lookup.host], QiTypeList[lookup.guest])]
    /\ UNCHANGED <<variant, cal, req, pc, natal, age, currentHealth, kline_data,
                   flow, response, session, history, previous, ui>>

\* getClimaticEffect() of a year with the given branch
ClimaticEffect ==
    /\ pc = "engine"
    /\ lookup.kind = "climatic"
    /\ ~lookup.done
    /\ lookup' = [lookup EXCEPT
          !.done = TRUE,
          !.effect = getClimaticEffect(ProfileOf(0, lookup.branch))]
    /\ UNCHANGED <<variant, cal, req, pc, natal, age, currentHealth, kline_data,
                   flow, response, session, history, previous, ui>>

\* the three relation tables read at one element
ElementRelations ==
    /\ pc = "engine"
    /\ lookup.kind = "relation"
    /\ ~lookup.done
    /\ lookup' = [lookup EXCEPT
          !.done = TRUE,
          !.generates = ElementGeneration[lookup.element],
          !.overcomes = ElementOvercomes[lookup.element],
          !.overcomer = ElementOvercomer[lookup.element],
          !.back = ElementOvercomer[ElementOvercomes[lookup.element]]]
    /\ UNCHANGED <<variant, cal, req, pc, natal, age, currentHealth, kline_data,
                   flow, response, session, history, previous, ui>>

\* getGuestQiSequence() of a year with the given branch, and the pair
\* getCurrentQiEnums returns when its search ends at the given step
GuestQi ==
    /\ pc = "engine"
    /\ lookup.kind = "guestQi"
    /\ ~lookup.done
    /\ lookup' = [lookup EXCEPT
          !.done = TRUE,
          !.sequence = getGuestQiSequence(ProfileOf(0, lookup.branch)),
          !.enums = QiEnumsAt(ProfileOf(0, lookup.branch), lookup.step)]
    /\ UNCHANGED <<variant, cal, req, pc, natal, age, currentHealth, kline_data,
                   flow, response, session, history, previous, ui>>

\* the sqPts2 block of calculateYearAhi
SqPts2 ==
    /\ pc = "engine"
    /\ lookup.kind = "sqPts2"
    /\ ~lookup.done
    /\ lookup' = [lookup EXCEPT
          !.done = TRUE,
          !.pts = sqPts2([natalSuiYun |-> lookup.natalYun], QiTypeList[lookup.siTian],
                         lookup.cyBranchEl)]
    /\ UNCHANGED <<variant, cal, req, pc, natal, age, currentHealth, kline_data,
                   flow, response, session, history, previous, ui>>

\* the suiYunPts block of calculateYearAhi for a natal stem and a flowing stem
SuiYunPts ==
    /\ pc = "engine"
    /\ lookup.kind = "suiYun"
    /\ ~lookup.done
    /\ lookup' = [lookup EXCEPT
          !.done = TRUE,
          !.pts = suiYunPts(Zang(HeavenlyStemList[lookup.natalStem + 1]),
                            HeavenlyStemList[lookup.flowStem + 1].element,
                            HeavenlyStemList[lookup.flowStem + 1].adequacy)]
    /\ UNCHANGED <<variant, cal, req, pc, natal, age, currentHealth, kline_data,
                   flow, response, session, history, previous, ui>>

\* the natal fields the stepPts loop reads
StepProfile(natalStem, hostYun) ==
    [birthHostYun |-> hostYun, weakZang |-> Zang(HeavenlyStemList[natalStem + 1]).weakZang]

\* the stepPtsSum loop of calculateYearAhi over the guest movements of a flowing
\* year with the given stem, and over those of a JIA year
StepPtsSum ==
    /\ pc = "engine"
    /\ lookup.kind = "stepSum"
    /\ ~lookup.done
    /\ lookup' = [lookup EXCEPT
          !.done = TRUE,
          !.guests = getGuestFortunes(ProfileOf(lookup.flowStem, 0)),
          !.sum = SumStepPts(StepProfile(lookup.natalStem, lookup.hostYun),
                             getGuestFortunes(ProfileOf(lookup.flowStem, 0)), 1),
          !.sumOfJia = SumStepPts(StepProfile(lookup.natalStem, lookup.hostYun),
                                  getGuestFortunes(ProfileOf(0, 0)), 1)]
    /\ UNCHANGED <<variant, cal, req, pc, natal, age, currentHealth, kline_data,
                   flow, response, session, history, previous, ui>>

NextEngine ==
    \/ CalcBaseScore
    \/ ClimaticEffect
    \/ ElementRelations
    \/ GuestQi
    \/ SqPts2
    \/ SuiYunPts
    \/ StepPtsSum

SpecEngine == InitEngine /\ [][NextEngine]_vars

----------------------------------------------------------------------------
(* 7a. The history routes of part_002 *)

MaxRows == 3

Users == {1, 2}

\* a row stored by an earlier calculation of user u
StoredRow(i, u) ==
    [id         |-> i,
     user_id    |-> u,
     birth_date |-> <<MinYear, 7, 23>>,
     wylq_data  |-> [wylq_summary |-> NoSummary, kline_data |-> <<>>],
     base_score |-> 60]

\* the tables earlier requests can have left: ids are those of AUTOINCREMENT
HistoryTables ==
    UNION { { [i \in 1..n |-> StoredRow(i, owner[i])] : owner \in [1..n -> Users] } :
            n \in 0..MaxRows }

InitHistory ==
    /\ variant = "precise"
    /\ cal = DefaultCalendar
    /\ req = NoRequest
    /\ pc = "routes"
    /\ natal = NoNatal
    /\ age = 0
    /\ currentHealth = 0
    /\ kline_data = <<>>
    /\ flow = NoFlow
    /\ response = NoResponse
    /\ lookup = NoLookup
    /\ session \in {0} \cup Users
    /\ history \in HistoryTables
    /\ previous = NoResponse
    /\ ui = NoUi

\* POST /api/login with the credentials of user u: req.session.userId = user.id
Login ==
    /\ pc = "routes"
    /\ \E u \in Users :
          /\ u # session
          /\ session' = u
    /\ UNCHANGED <<variant, cal, req, pc, natal, age, currentHealth, kline_data,
                   flow, response, lookup, history, previous, ui>>

\* POST /api/logout: req.session.destroy
Logout ==
    /\ pc = "routes"
    /\ session # 0
    /\ session' = 0
    /\ UNCHANGED <<variant, cal, req, pc, natal, age, currentHealth, kline_data,
                   flow, response, lookup, history, previous, ui>>

\* the rows DELETE FROM history WHERE id = ? leaves, whoever owns the row
DeleteHistoryAnyUser ==
    /\ pc = "routes"
    /\ \E id \in 1..(MaxRows + 1) :
          /\ lookup' = [kind |-> "delete", id |-> id, user |-> session]
          /\ IF session = 0
             THEN /\ response' = [NoResponse EXCEPT !.status = 401,
                                                    !.error.kind = "notLoggedIn"]
                  /\ history' = history
             ELSE \E kept \in {SelectSeq(history, LAMBDA r : r.id # id)} :
                     /\ history' = kept
                     /\ response' = IF Len(history) - Len(kept) > 0
                                    THEN [NoResponse EXCEPT !.status = 200]
                                    ELSE [NoResponse EXCEPT !.status = 404,
                                                            !.error.kind = "notFound"]
    /\ UNCHANGED <<variant, cal, req, pc, natal, age, currentHealth, kline_data,
                   flow, session, previous, ui>>

\* app.delete("/api/history/:id", isAuthenticated, ...): 401 without a
\* session; else DELETE FROM history WHERE id = ? AND user_id = ?, answering
\* { success: true } when result.changes > 0 and 404 otherwise
DeleteHistory ==
    /\ pc = "routes"
    /\ \E id \in 1..(MaxRows + 1) :
          /\ lookup' = [kind |-> "delete", id |-> id, user |-> session]
          /\ IF session = 0
             THEN /\ response' = [NoResponse EXCEPT !.status = 401,
                                                    !.error.kind = "notLoggedIn"]
                  /\ history' = history
             ELSE \E kept \in {SelectSeq(history,
                                  LAMBDA r : ~(r.id = id /\ r.user_id = session))} :
                     /\ history' = kept
                     /\ response' = IF Len(history) - Len(kept) > 0
                                    THEN [NoResponse EXCEPT !.status = 200]
                                    ELSE [NoResponse EXCEPT !.status = 404,
                                                            !.error.kind = "notFound"]
    /\ UNCHANGED <<variant, cal, req, pc, natal, age, currentHealth, kline_data,
                   flow, session, previous, ui>>

NextHistory ==
    \/ Login
    \/ Logout
    \/ DeleteHistory

SpecHistory == InitHistory /\ [][NextHistory]_vars

----------------------------------------------------------------------------
(* 7b. calculateYearAhi called ahead of the loop *)

\* The handler runs once as written.  The same body is posted again, and in
\* the second run calculateYearAhi may be called for ages the loop has not
\* reached yet, in any order, the loop taking the value kept for an age
\* instead of calling again.

AheadCount == 2

AheadAges == {1, 30, 60}

AheadDates == { <<1, 1>>, <<7, 23>> }

NoAhead == [kind |-> "ahead", scores |-> <<>>, order |-> <<>>, used |-> {}]

InitAhead ==
    /\ variant \in Variants
    /\ cal = [kind |-> "lunar", newYear |-> <<1, 22>>, horizon |-> MaxYear + 2 * SeriesLength]
    /\ req \in { [year |-> y, month |-> md[1], day |-> md[2]] :
                   y \in MinYear..MaxYear, md \in AheadDates }
    /\ pc = "received"
    /\ natal = NoNatal
    /\ age = 0
    /\ currentHealth = 0
    /\ kline_data = <<>>
    /\ flow = NoFlow
    /\ response = NoResponse
    /\ lookup = NoAhead
    /\ session = 0
    /\ history = <<>>
    /\ previous = NoResponse
    /\ ui = NoUi

\* a call that also keeps the flowing year's movement in the engine
PrecomputeWriting ==
    /\ pc = "loop"
    /\ previous # NoResponse
    /\ Len(lookup.order) < AheadCount
    /\ \E a \in AheadAges :
          /\ a >= age
          /\ a \notin DOMAIN lookup.scores
          /\ \E r \in {calculateYearAhi(variant, natal.engine, req.year + a - 1)} :
                /\ r.ok
                /\ lookup' = [lookup EXCEPT
                      !.scores = [x \in DOMAIN lookup.scores \cup {a} |->
                                     IF x = a THEN r ELSE lookup.scores[x]],
                      !.order = Append(lookup.order, a)]
                /\ natal' = [natal EXCEPT !.engine.natalSuiYun =
                                HeavenlyStem_fromYear(variant, r.wuyunYear).element]
    /\ UNCHANGED <<variant, cal, req, pc, age, currentHealth, kline_data,
                   flow, response, session, history, previous, ui>>

\* engine.calculateYearAhi(year + a - 1) called for an age a the loop has not
\* reached, its result kept for the loop
Precompute ==
    /\ pc = "loop"
    /\ previous # NoResponse
    /\ Len(lookup.order) < AheadCount
    /\ \E a \in AheadAges :
          /\ a >= age
          /\ a \notin DOMAIN lookup.scores
          /\ \E r \in {calculateYearAhi(variant, natal.engine, req.year + a - 1)} :
                /\ r.ok
                /\ lookup' = [lookup EXCEPT
                      !.scores = [x \in DOMAIN lookup.scores \cup {a} |->
                                     IF x = a THEN r ELSE lookup.scores[x]],
                      !.order = Append(lookup.order, a)]
                /\ natal' = natal
    /\ UNCHANGED <<variant, cal, req, pc, age, currentHealth, kline_data,
                   flow, response, session, history, previous, ui>>

\* one iteration of the loop with impact taken from the kept results
UseAhead ==
    /\ pc = "loop"
    /\ age <= SeriesLength
    /\ age \in DOMAIN lookup.scores
    /\ \E r \in {lookup.scores[age]} :
          /\ flow' = r
          /\ \E c \in {closeScore(currentHealth, natal.engine.baseScore, r.impact, age)} :
                /\ kline_data' = Append(kline_data, KlinePoint(age, currentHealth, c))
                /\ currentHealth' = c
    /\ lookup' = [lookup EXCEPT !.used = @ \cup {age}]
    /\ age' = age + 1
    /\ UNCHANGED <<variant, cal, req, pc, natal, response,
                   session, history, previous, ui>>

NextAhead ==
    \/ BuildNatal
    \/ YearStep
    \/ Respond
    \/ PostAgain
    \/ Precompute
    \/ UseAhead

SpecAhead == InitAhead /\ [][NextAhead]_vars

----------------------------------------------------------------------------
(* 7c. The front-end component: part_000 and part_001 *)

\* calcData and report are 0 for null; calcData is otherwise the year whose
\* result it holds, report the year of the calcData it was generated from.
\* calcReq and reportReq are the requests in flight (0 = none), carrying the
\* year posted and the calcData posted.

FrontVariants == {"part_000", "part_001"}

FormYears == {1990, 1991}

\* the useState initial values
UiAtMount ==
    [mounted |-> TRUE, year |-> 1990, calcData |-> 0, report |-> 0,
     isCalculating |-> FALSE, isGeneratingReport |-> FALSE,
     hasCalculated |-> FALSE, hasGeneratedReport |-> FALSE,
     calcReq |-> 0, reportReq |-> 0, alert |-> "none"]

InitFront ==
    /\ variant \in FrontVariants
    /\ cal = DefaultCalendar
    /\ req = NoRequest
    /\ pc = "front"
    /\ natal = NoNatal
    /\ age = 0
    /\ currentHealth = 0
    /\ kline_data = <<>>
    /\ flow = NoFlow
    /\ response = NoResponse
    /\ lookup = NoLookup
    /\ session = 0
    /\ history = <<>>
    /\ previous = NoResponse
    /\ ui = UiAtMount

\* the year select's onChange: setYear
SetYear ==
    /\ pc = "front"
    /\ \E y \in FormYears :
          /\ y # ui.year
          /\ ui' = [ui EXCEPT !.year = y]
    /\ UNCHANGED <<variant, cal, req, pc, natal, age, currentHealth, kline_data,
                   flow, response, lookup, session, history, previous>>

\* handleCalculate up to its await; the button is disabled while isCalculating
ClickCalculate ==
    /\ pc = "front"
    /\ ~ui.isCalculating
    /\ ui' = [ui EXCEPT !.isCalculating = TRUE,
                        !.hasCalculated = FALSE,
                        !.hasGeneratedReport = FALSE,
                        !.report = 0,
                        !.calcReq = ui.year,
                        !.alert = "none"]
    /\ UNCHANGED <<variant, cal, req, pc, natal, age, currentHealth, kline_data,
                   flow, response, lookup, session, history, previous>>

\* handleCalculate after its await resolved: try, then finally
CalcSucceeds ==
    /\ pc = "front"
    /\ ui.calcReq # 0
    /\ ui' = [ui EXCEPT !.calcData = ui.calcReq,
                        !.hasCalculated = TRUE,
                        !.isCalculating = FALSE,
                        !.calcReq = 0]
    /\ UNCHANGED <<variant, cal, req, pc, natal, age, currentHealth, kline_data,
                   flow, response, lookup, session, history, previous>>

\* the catch block without the finally after it
CalcFailsNoFinally ==
    /\ pc = "front"
    /\ ui.calcReq # 0
    /\ ui' = [ui EXCEPT !.alert = "calcFailed",
                        !.calcReq = 0]
    /\ UNCHANGED <<variant, cal, req, pc, natal, age, currentHealth, kline_data,
                   flow, response, lookup, session, history, previous>>

\* handleCalculate after its await rejected: catch (alert), then finally
CalcFails ==
    /\ pc = "front"
    /\ ui.calcReq # 0
    /\ ui' = [ui EXCEPT !.alert = "calcFailed",
                        !.isCalculating = FALSE,
                        !.calcReq = 0]
    /\ UNCHANGED <<variant, cal, req, pc, natal, age, currentHealth, kline_data,
                   flow, response, lookup, session, history, previous>>

\* whether the report button is rendered and enabled
ReportButtonEnabled ==
    IF variant = "part_000"
    THEN ui.hasCalculated /\ ui.calcData # 0 /\ ~ui.isGeneratingReport
    ELSE ~ui.hasGeneratedReport /\ ~ui.isGeneratingReport /\ ui.hasCalculated

\* handleGenerateReport up to its await
ClickReport ==
    /\ pc = "front"
    /\ ReportButtonEnabled
    /\ ui.calcData # 0
    /\ ui' = [ui EXCEPT !.isGeneratingReport = TRUE,
                        !.reportReq = ui.calcData,
                        !.alert = "none"]
    /\ UNCHANGED <<variant, cal, req, pc, natal, age, currentHealth, kline_data,
                   flow, response, lookup, session, history, previous>>

\* handleGenerateReport after its await resolved: try, then finally
ReportSucceeds ==
    /\ pc = "front"
    /\ ui.reportReq # 0
    /\ ui' = [ui EXCEPT !.report = ui.reportReq,
                        !.hasGeneratedReport = TRUE,
                        !.isGeneratingReport = FALSE,
                        !.reportReq = 0]
    /\ UNCHANGED <<variant, cal, req, pc, natal, age, currentHealth, kline_data,
                   flow, response, lookup, session, history, previous>>

\* handleGenerateReport after its await rejected: catch (alert), then finally
ReportFails ==
    /\ pc = "front"
    /\ ui.reportReq # 0
    /\ ui' = [ui EXCEPT !.alert = "reportFailed",
                        !.isGeneratingReport = FALSE,
                        !.reportReq = 0]
    /\ UNCHANGED <<variant, cal, req, pc, natal, age, currentHealth, kline_data,
                   flow, response, lookup, session, history, previous>>

NextFront ==
    \/ SetYear
    \/ ClickCalculate
    \/ CalcSucceeds
    \/ CalcFails
    \/ ClickReport
    \/ ReportSucceeds
    \/ ReportFails

SpecFront == InitFront /\ [][NextFront]_vars

\* every request sent settles: its promise resolves or rejects
SpecFrontFair ==
    /\ InitFront
    /\ [][NextFront]_vars
    /\ WF_vars(CalcSucceeds \/ CalcFails)
    /\ WF_vars(ReportSucceeds \/ ReportFails)

----------------------------------------------------------------------------
(* 8. Properties *)

Points(k) == {k[i] : i \in 1..Len(k)}

\* C1: for every age the close of the emitted point lies in [0, 100]
\* (0..10000 hundredths), in the series being built and in the one returned.
CloseInRange ==
    \A p \in Points(kline_data) \cup Points(response.kline_data) :
        p.close >= 0 /\ p.close <= 100 * 100

\* C1 witness: a returned series holding a point whose close was clamped to 0
ClampedPointReturned ==
    /\ pc = "done"
    /\ response.status = 200
    /\ \E p \in Points(response.kline_data) : p.close = 0

\* C2: open of the point for age n equals close of the point for age n-1 for
\* n in 2..60, and open of the age-1 point equals the natal base score.
OpenIsPreviousClose ==
    /\ \A i \in 2..Len(kline_data) : kline_data[i].open = kline_data[i - 1].close
    /\ Len(kline_data) >= 1 => kline_data[1].open = natal.engine.baseScore * 100
    /\ \A i \in 2..Len(response.kline_data) :
          response.kline_data[i].open = response.kline_data[i - 1].close
    /\ Len(response.kline_data) >= 1 =>
          response.kline_data[1].open = response.base_score * 100

\* C2 witness: a full 60-point series was returned and its points move
FullSeriesReturned ==
    /\ pc = "done"
    /\ response.status = 200
    /\ Len(response.kline_data) = SeriesLength
    /\ \E i \in 1..SeriesLength :
          response.kline_data[i].close # response.kline_data[i].open

\* C3: for the birth date exactly one of the 5 movement-step intervals and
\* exactly one of the 6 qi-step intervals contains it, and the step searches
\* return the index of that interval.
StepIntervalsPartition ==
    natal.built =>
        /\ Containing(birthDate, natal.startDates, 5) = {natal.fortuneStep}
        /\ Containing(birthDate, natal.qiBounds, 6) = {natal.qiStep}

\* the movement-year of an instant by the rule: the civil year from that
\* year's Great Cold on, the year before until then
MovementYearOf(t) ==
    IF t < TermInstant(getFullYear(t), "DaHan") THEN getFullYear(t) - 1
    ELSE getFullYear(t)

\* C4: the constructor assigns movement-year Y-1 to a date of civil year Y
\* before that year's Great Cold instant and Y to a date on or after it, for
\* the birth date and for the date of every flowing year.
MovementYearRule ==
    /\ natal.built =>
          natal.engine.natalCalc.wuyunYear = MovementYearOf(birthDate)
    /\ flow.ok => flow.wuyunYear = MovementYearOf(flow.dt)

\* C5: fromYear returns the defined record at index ((year-4) mod 10 + 10)
\* mod 10 (stems) and ((year-4) mod 12 + 12) mod 12 (branches) for every
\* integer year, never an undefined one.
FromYearTotal ==
    (lookup.kind = "fromYear" /\ lookup.done) =>
        /\ lookup.stem # Undefined
        /\ lookup.branch # Undefined
        /\ lookup.stem = HeavenlyStemList[((lookup.year - 4) % 10) + 1]
        /\ lookup.branch = EarthlyBranchList[((lookup.year - 4) % 12) + 1]

\* C6: fromYear(Y) = fromYear(Y + 60) for stems and for branches.
SexagenaryPeriod ==
    (lookup.kind = "fromYear" /\ lookup.done) =>
        /\ lookup.stem = lookup.stem60
        /\ lookup.branch = lookup.branch60

\* C7: for every answer pattern of the calendar the year-checked locator
\* returns the instant of the term in the requested year when some probed
\* month answers with that year, and throws otherwise; it never returns an
\* instant of another year.
LocatorYearChecked ==
    (lookup.kind = "locate" /\ lookup.done) =>
        /\ lookup.result.ok <=> cal.same # {}
        /\ lookup.result.ok =>
              /\ lookup.result.year = cal.year
              /\ lookup.result.time = TermInstant(cal.year, lookup.term)
              /\ getFullYear(lookup.result.time) = cal.year
        /\ ~lookup.result.ok =>
              /\ lookup.result.year = cal.year
              /\ lookup.result.term = lookup.term

\* C7 witness: the four first probes answer with the year before and only
\* the scan of the twelve months finds the term of the requested year
FoundByFullScan ==
    /\ lookup.kind = "locate"
    /\ lookup.done
    /\ lookup.result.ok
    /\ cal.other = "prev"
    /\ cal.same = {12}

\* some locator call the request needs throws
NeededLookupFails ==
    LET calc == WuYunLiuQi(variant, birthDate)
    IN  \/ ~calc.ok
        \/ ~AllOk(NatalLookups(calc))
        \/ \E a \in 1..SeriesLength :
              \/ ~getExactJieqi(variant, req.year + a - 1, "DaHan").ok
              \/ ~WuYunLiuQi(variant,
                     getExactJieqi(variant, req.year + a - 1, "DaHan").time).ok

\* C8: if the locator fails for a (year, term) the request needs, the
\* response is an error naming a failing year and term and carries no
\* summary and no series; otherwise the request succeeds.
LocatorFailureIsFatal ==
    (pc = "done" /\ ~Missing) =>
        IF NeededLookupFails
        THEN /\ response.status = 500
             /\ response.error.kind = "locate"
             /\ ~getExactJieqi(variant, response.error.year, response.error.term).ok
             /\ response.wylq_summary = NoSummary
             /\ response.kline_data = <<>>
        ELSE response.status = 200

\* C8 witness: the locator failed after some points had been pushed
FailedMidSeries ==
    /\ pc = "done"
    /\ response.status = 500
    /\ Len(kline_data) > 0

\* C9: a date lying in none of the step intervals makes the searches raise
\* an error: a natal profile is only built from a date that some movement
\* interval and some qi interval contains.
StepSearchFailsLoudly ==
    natal.built =>
        /\ Containing(birthDate, natal.startDates, 5) # {}
        /\ Containing(birthDate, natal.qiBounds, 6) # {}

\* C10: a request whose year, month or day is missing or out of range is
\* rejected with status 400 before any engine computation.
OutOfRangeRejected ==
    (pc # "received" /\ (Missing \/ req.month \notin 1..12 \/ req.day \notin 1..31)) =>
        /\ pc = "done"
        /\ response.status = 400
        /\ ~natal.built

\* C13: two calculate requests with the same (year, month, day) are answered
\* with the same status, Natal Summary, series and base score, whatever the
\* session and the stored history are at each of them.
SameInputSameResult ==
    (pc = "done" /\ previous # NoResponse) =>
        /\ response.status = previous.status
        /\ response.error = previous.error
        /\ response.wylq_summary = previous.wylq_summary
        /\ response.kline_data = previous.kline_data
        /\ response.base_score = previous.base_score

\* C13 witness: both requests returned a full series, the first one logged
\* out and the second one logged in with its result stored
RepeatedWithOtherState ==
    /\ pc = "done"
    /\ previous.status = 200
    /\ response.status = 200
    /\ Len(response.kline_data) = SeriesLength
    /\ previous.historyId = 0
    /\ response.historyId # 0
    /\ history # <<>>

\* C11: for every pair of birth host qi and birth guest qi the natal base
\* score lies in [20, 70].
BaseScoreInRange ==
    (lookup.kind = "baseScore" /\ lookup.done) =>
        lookup.score >= 20 /\ lookup.score <= 70

\* C11 witness: host WEAK_YANG_FIRE with guest MILD_YIN_FIRE, where both the
\* element rule and the named exception add: 50 + 10 + 8
BaseScoreOfSpecialPair ==
    /\ lookup.kind = "baseScore"
    /\ lookup.done
    /\ QiTypeList[lookup.host].display_name = "WEAK_YANG_FIRE"
    /\ QiTypeList[lookup.guest].display_name = "MILD_YIN_FIRE"
    /\ lookup.score = 68

\* C14: every one of the 12 branches is listed by exactly one of the six
\* ClimaticEffect entries, the entries are pairs, pairwise disjoint and cover
\* the 12 branches, and getClimaticEffect returns that entry's pair.
ClimaticPartition ==
    (lookup.kind = "climatic" /\ lookup.done) =>
        LET char    == EarthlyBranchList[lookup.branch + 1].char
            entries == {i \in 1..6 : char \in ClimaticMapping[i].branches}
        IN  /\ Cardinality(entries) = 1
            /\ \A i \in 1..6 : Cardinality(ClimaticMapping[i].branches) = 2
            /\ \A i, j \in 1..6 :
                  i # j => ClimaticMapping[i].branches \cap ClimaticMapping[j].branches = {}
            /\ UNION {ClimaticMapping[i].branches : i \in 1..6}
                  = {EarthlyBranchList[k].char : k \in 1..12}
            /\ lookup.effect.found
            /\ \A i \in entries :
                  /\ lookup.effect.celestial.display_name = ClimaticMapping[i].effects[1]
                  /\ lookup.effect.terrestrial.display_name = ClimaticMapping[i].effects[2]

\* C14 witness: the branch HAI resolved through the last entry
ClimaticEffectOfHai ==
    /\ lookup.kind = "climatic"
    /\ lookup.done
    /\ EarthlyBranchList[lookup.branch + 1].char = "HAI"
    /\ lookup.effect.found
    /\ lookup.effect.celestial.display_name = "WEAK_YIN_WOOD"
    /\ lookup.effect.terrestrial.display_name = "WEAK_YANG_FIRE"

\* C18: the three relation tables are defined at every element,
\* ElementOvercomes[x] = ElementGeneration[ElementGeneration[x]] and
\* ElementOvercomer[ElementOvercomes[x]] = x.
ElementTablesConsistent ==
    (lookup.kind = "relation" /\ lookup.done) =>
        /\ lookup.generates \in Element
        /\ lookup.overcomes \in Element
        /\ lookup.overcomer \in Element
        /\ lookup.overcomes = ElementGeneration[lookup.generates]
        /\ lookup.back = lookup.element
        /\ ElementOvercomes[lookup.overcomer] = lookup.element

\* C18 witness: the tables read at WATER
RelationsOfWater ==
    /\ lookup.kind = "relation"
    /\ lookup.done
    /\ lookup.element = "WATER"
    /\ lookup.generates = "WOOD"
    /\ lookup.overcomes = "FIRE"
    /\ lookup.overcomer = "EARTH"

\* the predecessor in the cycle WEAK_YIN_WOOD, MILD_YIN_FIRE, WEAK_YANG_FIRE,
\* DOMINANT_YIN_EARTH, MILD_YANG_METAL, DOMINANT_YANG_WATER, by name
PredName(n) ==
    CASE n = "WEAK_YIN_WOOD"       -> "DOMINANT_YANG_WATER"
      [] n = "MILD_YIN_FIRE"       -> "WEAK_YIN_WOOD"
      [] n = "WEAK_YANG_FIRE"      -> "MILD_YIN_FIRE"
      [] n = "DOMINANT_YIN_EARTH"  -> "WEAK_YANG_FIRE"
      [] n = "MILD_YANG_METAL"     -> "DOMINANT_YIN_EARTH"
      [] n = "DOMINANT_YANG_WATER" -> "MILD_YANG_METAL"

\* C19: for every branch the guest-qi sequence is [pred(pred(celestial)),
\* pred(celestial), celestial, pred(pred(terrestrial)), pred(terrestrial),
\* terrestrial], and the pair reported for a step is the host qi of that
\* step with the guest slot of the same step.
GuestQiSlots ==
    (lookup.kind = "guestQi" /\ lookup.done) =>
        LET char == EarthlyBranchList[lookup.branch + 1].char
            item == CHOOSE i \in 1..6 : char \in ClimaticMapping[i].branches
            c    == ClimaticMapping[item].effects[1]
            t    == ClimaticMapping[item].effects[2]
        IN  /\ [i \in 1..6 |-> lookup.sequence[i].display_name]
                  = << PredName(PredName(c)), PredName(c), c,
                       PredName(PredName(t)), PredName(t), t >>
            /\ Len(lookup.sequence) = 6
            /\ lookup.enums[1] = QiTypeList[lookup.step + 1]
            /\ lookup.enums[2] = lookup.sequence[lookup.step + 1]

\* C19 witness: branch ZI at the first step, whose guest slot wraps around
\* the cycle: pred(pred(MILD_YIN_FIRE)) = DOMINANT_YANG_WATER
GuestQiWraps ==
    /\ lookup.kind = "guestQi"
    /\ lookup.done
    /\ EarthlyBranchList[lookup.branch + 1].char = "ZI"
    /\ lookup.step = 0
    /\ lookup.enums[1].display_name = "WEAK_YIN_WOOD"
    /\ lookup.enums[2].display_name = "DOMINANT_YANG_WATER"

\* C20: the second qi sub-score is the value of the first matching
\* condition of the chain +22, +20, -15, -20, -28, -12, else 0, and nothing
\* else contributes.
SecondQiScoreChain ==
    (lookup.kind = "sqPts2" /\ lookup.done) =>
        LET n  == lookup.natalYun
            st == QiTypeList[lookup.siTian].element
            conds == << ElementGeneration[st] = n, n = lookup.cyBranchEl,
                        ElementGeneration[n] = st, ElementOvercomes[n] = st,
                        ElementOvercomes[st] = n, n = st >>
            pts   == << 22, 20, -15, -20, -28, -12 >>
            first == {i \in 1..6 : conds[i] /\ \A j \in 1..(i - 1) : ~conds[j]}
        IN  /\ lookup.pts \in {22, 20, -15, -20, -28, -12, 0}
            /\ \A i \in first : lookup.pts = pts[i]
            /\ first = {} => lookup.pts = 0

\* C20 witness: the celestial qi generates the natal stem element, which is
\* also the flowing branch element: only the +22 counts
FirstOfTwoMatches ==
    /\ lookup.kind = "sqPts2"
    /\ lookup.done
    /\ ElementGeneration[QiTypeList[lookup.siTian].element] = lookup.natalYun
    /\ lookup.natalYun = lookup.cyBranchEl
    /\ lookup.pts = 22

Abs(x) == IF x < 0 THEN -x ELSE x

\* every natal profile an engine can hold: a stem, a birth host movement
\* and a birth host qi
NatalProfiles ==
    { [natalSuiYun  |-> HeavenlyStemList[s].element,
       strongZang   |-> IF HeavenlyStemList[s].adequacy = "EXCESS"
                        THEN HeavenlyStemList[s].element
                        ELSE ElementOvercomer[HeavenlyStemList[s].element],
       weakZang     |-> IF HeavenlyStemList[s].adequacy = "EXCESS"
                        THEN ElementOvercomes[HeavenlyStemList[s].element]
                        ELSE HeavenlyStemList[s].element,
       birthHostYun |-> hy,
       birthHostQi  |-> QiTypeList[hq]] : s \in 1..10, hy \in Element, hq \in 1..6 }

\* the flowing years of one sexagenary cycle
FlowProfiles == { ProfileOf((y - 4) % 10, (y - 4) % 12) : y \in 4..63 }

\* the largest |impact| calculateYearAhi can return, in 1/10000 point
MaxAbsImpact ==
    LET all == { Abs(totalRawCollision(e, f)) : e \in NatalProfiles, f \in FlowProfiles }
    IN  CHOOSE m \in all : \A x \in all : x <= m

\* the largest |drift| of the four age bands
MaxAbsDrift ==
    LET all == { Abs(lifecycleDrift(a)) : a \in 1..SeriesLength }
    IN  CHOOSE m \in all : \A x \in all : x <= m

\* C12: for every age the change |close - open| of the emitted point is at
\* most the largest possible |impact| plus the largest |drift|.
SingleStepDeltaBounded ==
    \A p \in Points(kline_data) :
        Abs(p.close - p.open) * 100 <= MaxAbsImpact + MaxAbsDrift

\* the drift of the four age bands, in 1/10000 point
BandDrift(a) ==
    CASE a \in 1..20  -> 8000
      [] a \in 21..40 -> 0
      [] a \in 41..50 -> -8000
      [] a \in 51..60 -> -15000

\* C15: the loop emits the points of ages 1, 2, ..., 60 in order and answers
\* with exactly 60 of them; the year scored for an age is year + age - 1;
\* currentHealth starts at the natal base score; each close is
\* clamp(0.6 * currentHealth + 0.4 * baseScore + impact + drift, 0, 100) with
\* the drift of the age's band, and currentHealth becomes that close.
SeriesRecurrence ==
    /\ [](/\ Len(kline_data) <= 60
          /\ \A i \in 1..Len(kline_data) : kline_data[i].age = i
          /\ response.status = 200 =>
                /\ Len(response.kline_data) = 60
                /\ \A i \in 1..60 : response.kline_data[i].age = i)
    /\ [][ /\ (pc = "received" /\ pc' = "loop") =>
                /\ age' = 1
                /\ kline_data' = <<>>
                /\ currentHealth' = natal'.engine.baseScore * 10000
           /\ (pc = "loop" /\ pc' = "loop") =>
                LET base == natal.engine.baseScore * 10000
                    raw  == ((6 * currentHealth + 4 * base + 5) \div 10)
                            + flow'.impact + BandDrift(age)
                    close == IF raw < 0 THEN 0
                             ELSE IF raw > 100 * 10000 THEN 100 * 10000 ELSE raw
                IN  /\ age \in 1..60
                    /\ age' = age + 1
                    /\ flow'.ok
                    /\ flow'.targetYear = req.year + age - 1
                    /\ currentHealth' = close
                    /\ kline_data' = Append(kline_data,
                          [age |-> age, open |-> (currentHealth + 50) \div 100,
                           close |-> (close + 50) \div 100]) ]_vars

\* C15 witness: the answer after the loop has gone through all four bands,
\* the last year scored being year + 59
AllBandsTraversed ==
    /\ pc = "done"
    /\ response.status = 200
    /\ response.kline_data[60].age = 60
    /\ flow.targetYear = req.year + 59
    /\ \E i \in 1..20, j \in 41..50, k \in 51..60 :
          /\ response.kline_data[i].close # response.kline_data[i].open
          /\ response.kline_data[j].close # response.kline_data[j].open
          /\ response.kline_data[k].close # response.kline_data[k].open

\* C16: the flowing-year profile calculateYearAhi(targetYear) builds has
\* movement-year targetYear, so that its stem, branch and ClimaticEffect are
\* those of targetYear.
FlowYearIsOwn ==
    flow.ok => flow.wuyunYear = flow.targetYear

\* C17: the six movement-step boundaries and the seven qi-step boundaries of
\* the birth date's movement-year are strictly increasing, start at the Great
\* Cold of that movement-year and end at the Great Cold of the year after.
BoundariesIncreasing ==
    natal.built =>
        LET Y == MovementYearOf(birthDate)
        IN  /\ \A i \in 1..5 : natal.startDates[i] < natal.startDates[i + 1]
            /\ \A i \in 1..6 : natal.qiBounds[i] < natal.qiBounds[i + 1]
            /\ natal.startDates[1] = TermInstant(Y, "DaHan")
            /\ natal.startDates[6] = TermInstant(Y + 1, "DaHan")
            /\ natal.qiBounds[1] = TermInstant(Y, "DaHan")
            /\ natal.qiBounds[7] = TermInstant(Y + 1, "DaHan")


\* C21: same element scores 25, generation adjacency 18 and an overcoming
\* relation -22, and the further -15 and +10 are added only on top of the
\* overcoming case.
SuiYunModifiersOnOvercoming ==
    (lookup.kind = "suiYun" /\ lookup.done) =>
        LET n == HeavenlyStemList[lookup.natalStem + 1].element
            f == HeavenlyStemList[lookup.flowStem + 1].element
        IN  IF f = n THEN lookup.pts = 25
            ELSE IF ElementGeneration[f] = n \/ ElementGeneration[n] = f
                 THEN lookup.pts = 18
            ELSE lookup.pts \in {-22, -22 - 15, -22 + 10}

\* C23: for every branch the six guest-qi slots are pairwise distinct.
GuestQiPermutation ==
    (lookup.kind = "guestQi" /\ lookup.done) =>
        \A i, j \in 1..6 : i # j => lookup.sequence[i] # lookup.sequence[j]

\* C24: for a fixed natal host movement and natal stem the sum of the five
\* step scores is the same for every flowing stem, and the five guest
\* movements of a year contain each element exactly once.
StepSumConstant ==
    (lookup.kind = "stepSum" /\ lookup.done) =>
        /\ lookup.sum = lookup.sumOfJia
        /\ Len(lookup.guests) = 5
        /\ {lookup.guests[i].element : i \in 1..5} = Element
        /\ \A i, j \in 1..5 : i # j => lookup.guests[i].element # lookup.guests[j].element

\* C24 witness: natal stem JIA with host movement WOOD in a XIN year, whose
\* guest movements start at WATER: 15 + 20 + 0 - 25 + 15
StepSumOfXinYear ==
    /\ lookup.kind = "stepSum"
    /\ lookup.done
    /\ lookup.natalStem = 0
    /\ lookup.hostYun = "WOOD"
    /\ lookup.flowStem = 7
    /\ lookup.guests[1].element = "WATER"
    /\ lookup.sum = 25

\* C25: the relation adjustment of the natal base score is never zero:
\* exactly one of its three branches applies to every pair of elements, the
\* named exception occurs only together with +10, and the score is one of
\* 35, 40, 52, 60, 68.
BaseScoreNeverNeutral ==
    (lookup.kind = "baseScore" /\ lookup.done) =>
        LET h == QiTypeList[lookup.host]
            g == QiTypeList[lookup.guest]
            related  == ElementGeneration[g.element] = h.element
                        \/ ElementGeneration[h.element] = g.element
                        \/ g.element = h.element
            hostWins  == ElementOvercomes[h.element] = g.element
            guestWins == ElementOvercomes[g.element] = h.element
            special  == {h.display_name, g.display_name}
                           = {"MILD_YIN_FIRE", "WEAK_YANG_FIRE"}
        IN  /\ lookup.score \in {35, 40, 52, 60, 68}
            /\ (related /\ ~hostWins /\ ~guestWins)
                  \/ (~related /\ hostWins /\ ~guestWins)
                  \/ (~related /\ ~hostWins /\ guestWins)
            /\ special => related
            /\ lookup.score \in {52, 68} <=> special
            /\ lookup.score = 35 <=> hostWins
            /\ lookup.score = 40 <=> guestWins

\* C25 witness: host WEAK_YIN_WOOD under guest MILD_YANG_METAL, where only
\* the last branch of the chain matches: 50 - 10
BaseScoreOfOvercomeHost ==
    /\ lookup.kind = "baseScore"
    /\ lookup.done
    /\ QiTypeList[lookup.host].display_name = "WEAK_YIN_WOOD"
    /\ QiTypeList[lookup.guest].display_name = "MILD_YANG_METAL"
    /\ lookup.score = 40


\* C26: the flowing year of the point of age a is the request's year + a - 1,
\* so that of age 1 is the civil birth year; that year is the natal
\* movement-year when the birth date is on or after its Great Cold and the
\* natal movement-year + 1 when it is before; and the 60 flowing years carry
\* 60 different stem/branch pairs.
FlowYearsFromBirthYear ==
    /\ (natal.built /\ flow.ok) => flow.targetYear = req.year + age - 2
    /\ natal.built =>
          /\ birthDate >= TermInstant(req.year, "DaHan") =>
                req.year = natal.engine.natalCalc.wuyunYear
          /\ birthDate < TermInstant(req.year, "DaHan") =>
                req.year = natal.engine.natalCalc.wuyunYear + 1
          /\ Cardinality({ <<HeavenlyStem_fromYear(variant, req.year + a - 1).index,
                              EarthlyBranch_fromYear(variant, req.year + a - 1).index>> :
                            a \in 1..SeriesLength }) = SeriesLength


\* C29: a step of POST /api/calculate appends exactly one row to the history
\* table, that of the session's user holding the answer's data, when it
\* answers 200 in part_002 with a logged-in session; every other step,
\* the 400 and 500 answers and the answers without a session included,
\* leaves the table unchanged.
HistoryInsertOnSuccess ==
    [][ IF /\ pc # "done" /\ pc' = "done" /\ response'.status = 200
           /\ variant = "precise" /\ session # 0
        THEN /\ Len(history') = Len(history) + 1
             /\ SubSeq(history', 1, Len(history)) = history
             /\ history'[Len(history')].user_id = session
             /\ history'[Len(history')].birth_date = <<req.year, req.month, req.day>>
             /\ history'[Len(history')].wylq_data.kline_data = response'.kline_data
             /\ history'[Len(history')].base_score = response'.base_score
             /\ response'.historyId = history'[Len(history')].id
        ELSE /\ history' = history
             /\ (pc' = "done" /\ pc # "done") => response'.historyId = 0 ]_vars

\* C29 witness: the first request was answered 200 with a session and stored
\* row 1, the second one was answered 200 without a session and stored none
StoredOnceOfTwo ==
    /\ variant = "precise"
    /\ pc = "done"
    /\ previous.status = 200
    /\ previous.historyId = 1
    /\ response.status = 200
    /\ session = 0
    /\ response.historyId = 0
    /\ Len(history) = 1
    /\ history[1].user_id = 1

\* C28: a DELETE /api/history/:id request without a session is answered 401
\* and one naming no row of the session's user 404, both leaving the table
\* as it is; otherwise it is answered 200 and the table loses exactly the
\* row with that id, which is the user's, and keeps every other row in place.
DeleteOnlyOwnRow ==
    [][ (session' = session /\ lookup'.kind = "delete") =>
          LET id    == lookup'.id
              rows  == {history[i] : i \in 1..Len(history)}
              after == {history'[i] : i \in 1..Len(history')}
              own   == {r \in rows : r.id = id /\ r.user_id = session}
          IN  /\ session = 0 => response'.status = 401 /\ history' = history
              /\ (session # 0 /\ own = {}) =>
                    response'.status = 404 /\ history' = history
              /\ (session # 0 /\ own # {}) =>
                    /\ response'.status = 200
                    /\ Len(history') = Len(history) - 1
                    /\ after = rows \ own
                    /\ Cardinality(own) = 1
              /\ \A i, j \in 1..Len(history') :
                    i < j => history'[i].id < history'[j].id ]_vars

\* C28 witness: user 1 named a row of user 2, was answered 404, and the row
\* is still in the table
OtherUsersRowKept ==
    /\ lookup.kind = "delete"
    /\ lookup.user = 1
    /\ session = 1
    /\ response.status = 404
    /\ \E i \in 1..Len(history) :
          history[i].id = lookup.id /\ history[i].user_id = 2

\* C22: whichever collision scores are computed ahead of the loop, in
\* whatever order and at whatever point of the fold, each kept score is the
\* value calculateYearAhi has for its year, computing one leaves the natal
\* profile as it is, and the answer carries the same series as the answer of
\* the run that called calculateYearAhi inside the loop.
AheadSameSeries ==
    /\ [](\A a \in DOMAIN lookup.scores :
             natal.built =>
                lookup.scores[a]
                   = calculateYearAhi(variant, natal.engine, req.year + a - 1))
    /\ []((pc = "done" /\ previous # NoResponse) =>
             /\ response.kline_data = previous.kline_data
             /\ response.base_score = previous.base_score
             /\ response.status = previous.status)
    /\ [][(pc = "loop" /\ pc' = "loop") => natal' = natal]_vars

\* C22 witness: the second run ended after the score of age 60 was computed
\* before that of age 1 and both were used by the loop
AheadOutOfOrder ==
    /\ pc = "done"
    /\ previous.status = 200
    /\ Len(previous.kline_data) = SeriesLength
    /\ response.status = 200
    /\ response.kline_data = previous.kline_data
    /\ lookup.order = <<60, 1>>
    /\ lookup.used = {1, 60}

\* C27: whenever a report is displayed (hasGeneratedReport and report set),
\* it was generated from the calcData currently held.
ReportOfHeldCalcData ==
    (ui.mounted /\ ui.hasGeneratedReport /\ ui.report # 0) => ui.report = ui.calcData

\* C30: a busy flag that is set is eventually cleared, it is set exactly
\* while its request is in flight, and a calculation that failed leaves
\* isCalculating and hasCalculated false.
BusyFlagsCleared ==
    /\ (ui.mounted /\ ui.isCalculating) ~> ~ui.isCalculating
    /\ (ui.mounted /\ ui.isGeneratingReport) ~> ~ui.isGeneratingReport
    /\ [](ui.mounted => /\ ui.isCalculating <=> ui.calcReq # 0
                        /\ ui.isGeneratingReport <=> ui.reportReq # 0)
    /\ [][(ui.calcReq # 0 /\ ui'.calcReq = 0 /\ ui'.alert = "calcFailed") =>
             ~ui'.isCalculating /\ ~ui'.hasCalculated]_vars

\* C30 witness: a calculation started after an earlier one had succeeded has
\* failed: the alert is up, no request is in flight and both flags are false
FailedAfterSuccess ==
    /\ ui.mounted
    /\ ui.alert = "calcFailed"
    /\ ui.calcData # 0
    /\ ui.calcReq = 0
    /\ ~ui.isCalculating
    /\ ~ui.hasCalculated

====
